---- MODULE Spec2Model ----
(***************************************************************************)
(* Tic-tac-toe with move history and time travel (src/src/Game.tsx).       *)
(*                                                                         *)
(* The Game component's four useState cells are the program state.  Every  *)
(* handler runs to completion on the UI event loop and the component is    *)
(* rendered again before the next event, so each handler is one atomic     *)
(* action and every value computed during render (current, winner, moves,  *)
(* sortedMoves, status) is an operator over the state.                     *)
(*                                                                         *)
(* Array indices are kept 0-based as in the source; history is a TLA+      *)
(* sequence, so history index k of the source is element k+1 here (see     *)
(* Snapshot).                                                              *)
(***************************************************************************)
EXTENDS Integers, Sequences, FiniteSets, TLC

VARIABLES
    history,      \* useState: list of { squares } snapshots        (Game.tsx:95)
    stepNumber,   \* useState: index of the displayed snapshot      (Game.tsx:98)
    xIsNext,      \* useState: stored turn indicator                (Game.tsx:99)
    isAscending,  \* useState: move-list sort flag                  (Game.tsx:100)
    lastOp,       \* history variable: the last UI event and what it did
    jumped,       \* history variable: a move-list entry has been activated
    nAccepted,    \* history variable: accepted cell clicks while no jump was made
    cwSquares,    \* argument of a direct call of calculateWinner
    cwResult      \* <<result>> of that call once it has returned, else <<>>

gameVars == <<history, stepNumber, xIsNext, isAscending>>
ghostVars == <<lastOp, jumped, nAccepted>>
cwVars == <<cwSquares, cwResult>>
vars == <<history, stepNumber, xIsNext, isAscending, lastOp, jumped, nAccepted, cwSquares, cwResult>>

----------------------------------------------------------------------------
(* Bounds *)

\* A gap of a board is a pair of an empty cell and an occupied cell of higher
\* index.  A click on an empty cell is explored when the board it would lead
\* to has at most MaxGaps gaps; clicks on occupied cells are explored on every
\* occupied cell.
MaxGaps == 1

----------------------------------------------------------------------------
(* Types *)

Null == "null"
SquareValue == {"X", "O", Null}
NumSquares == 9
Cells == 0 .. (NumSquares - 1)
Boards == [Cells -> SquareValue]

\* null for the `line` field of calculateWinner's result and for winningSquares
NoLine == <<>>

EmptyBoard == [c \in Cells |-> Null]

\* history[k] of the source
Snapshot(h, k) == h[k + 1]

----------------------------------------------------------------------------
(* Vocabulary of the claims, stated without the operators that model the code *)

\* the 8 fixed lines in the stated order: rows 0-2, columns 0-2, diagonal
\* 0-4-8, diagonal 2-4-6
FixedLine(n) ==
    IF n <= 3 THEN << 3 * (n - 1), 3 * (n - 1) + 1, 3 * (n - 1) + 2 >>
    ELSE IF n <= 6 THEN << n - 4, n - 4 + 3, n - 4 + 6 >>
    ELSE IF n = 7 THEN << 0, 4, 8 >>
    ELSE << 2, 4, 6 >>

FixedLineNumbers == 1 .. 8

FixedLines == [n \in FixedLineNumbers |-> FixedLine(n)]

\* line n of board b holds three times the symbol sym
Holds(b, n, sym) ==
    /\ b[FixedLines[n][1]] = sym
    /\ b[FixedLines[n][2]] = sym
    /\ b[FixedLines[n][3]] = sym

HasLine(b, sym) == \E n \in FixedLineNumbers : Holds(b, n, sym)

HasWinner(b) == HasLine(b, "X") \/ HasLine(b, "O")

IsFull(b) == \A c \in Cells : b[c] # Null

DifferingCells(a, b) == {c \in Cells : a[c] # b[c]}

SymbolAt(s) == IF s % 2 = 0 THEN "X" ELSE "O"

LastIndex(h) == Len(h) - 1

----------------------------------------------------------------------------
(* calculateWinner *)

lines ==
    << <<0, 1, 2>>,
       <<3, 4, 5>>,
       <<6, 7, 8>>,
       <<0, 3, 6>>,
       <<1, 4, 7>>,
       <<2, 5, 8>>,
       <<0, 4, 8>>,
       <<2, 4, 6>> >>

\* the test without the comparison with the third cell
lineWins_twoCells(squares, line) ==
    /\ squares[line[1]] # Null
    /\ squares[line[1]] = squares[line[2]]

\* the test of the for loop's if, for one line
lineWins(squares, line) ==
    /\ squares[line[1]] # Null
    /\ squares[line[1]] = squares[line[2]]
    /\ squares[line[1]] = squares[line[3]]

RECURSIVE calculateWinnerFrom(_, _)
calculateWinnerFrom(squares, n) ==
    IF n > Len(lines)
    THEN [winner |-> Null, line |-> NoLine]
    ELSE IF lineWins(squares, lines[n])
         THEN [winner |-> squares[lines[n][1]], line |-> lines[n]]
         ELSE calculateWinnerFrom(squares, n + 1)

calculateWinner(squares) == calculateWinnerFrom(squares, 1)

----------------------------------------------------------------------------
(* getMoveLocation *)

DigitStr == <<"1", "2", "3", "4", "5", "6", "7", "8", "9">>

NoLocation == "null"

\* the location with the row computed by % and the column by Math.floor
formatLocation_swapped(i) ==
    LET row == (i % 3) + 1
        col == (i \div 3) + 1
    IN  "(" \o DigitStr[row] \o ", " \o DigitStr[col] \o ")"

\* `(${row}, ${col})`
formatLocation(i) ==
    LET row == (i \div 3) + 1
        col == (i % 3) + 1
    IN  "(" \o DigitStr[row] \o ", " \o DigitStr[col] \o ")"

RECURSIVE firstDifference(_, _, _)
firstDifference(prev, curr, i) ==
    IF i >= NumSquares
    THEN NoLocation
    ELSE IF curr[i] # prev[i]
         THEN formatLocation(i)
         ELSE firstDifference(prev, curr, i + 1)

getMoveLocation(h, move) ==
    IF move = 0
    THEN NoLocation
    ELSE firstDifference(Snapshot(h, move - 1).squares, Snapshot(h, move).squares, 0)

----------------------------------------------------------------------------
(* Values computed by Game on every render *)

current == Snapshot(history, stepNumber)
winner == calculateWinner(current.squares).winner
winningSquares == calculateWinner(current.squares).line

\* Board's highlight flag looking only at the first entry of winningSquares
highlight_firstEntry(index) ==
    IF winningSquares # NoLine
    THEN winningSquares[1] = index
    ELSE FALSE

\* Board: the highlight flag handed to the Square of cell index
highlight(index) ==
    IF winningSquares # NoLine
    THEN \E k \in 1 .. Len(winningSquares) : winningSquares[k] = index
    ELSE FALSE

\* the cells Board renders highlighted
highlighted == {index \in Cells : highlight(index)}

----------------------------------------------------------------------------
(* Event handlers of Game *)

\* handleClick without the test for an occupied cell
handleClick_noOccupiedTest(i) ==
    LET hist == SubSeq(history, 1, stepNumber + 1)
        squares == hist[Len(hist)].squares
    IN  IF winner # Null
        THEN UNCHANGED gameVars
        ELSE /\ history' = hist \o << [squares |-> [squares EXCEPT ![i] = IF xIsNext THEN "X" ELSE "O"]] >>
             /\ stepNumber' = Len(hist)
             /\ xIsNext' = ~xIsNext
             /\ UNCHANGED isAscending

\* handleClick without the test for a winner
handleClick_noWinnerTest(i) ==
    LET hist == SubSeq(history, 1, stepNumber + 1)
        squares == hist[Len(hist)].squares
    IN  IF squares[i] # Null
        THEN UNCHANGED gameVars
        ELSE /\ history' = hist \o << [squares |-> [squares EXCEPT ![i] = IF xIsNext THEN "X" ELSE "O"]] >>
             /\ stepNumber' = Len(hist)
             /\ xIsNext' = ~xIsNext
             /\ UNCHANGED isAscending

\* handleClick appending to the whole history instead of history.slice(0, stepNumber + 1)
handleClick_noTruncate(i) ==
    LET squares == current.squares
    IN  IF winner # Null \/ squares[i] # Null
        THEN UNCHANGED gameVars
        ELSE /\ history' = history \o << [squares |-> [squares EXCEPT ![i] = IF xIsNext THEN "X" ELSE "O"]] >>
             /\ stepNumber' = Len(history)
             /\ xIsNext' = ~xIsNext
             /\ UNCHANGED isAscending

\* handleClick placing "O" for X's turn and "X" for O's
handleClick_swappedSymbol(i) ==
    LET hist == SubSeq(history, 1, stepNumber + 1)
        squares == hist[Len(hist)].squares
    IN  IF winner # Null \/ squares[i] # Null
        THEN UNCHANGED gameVars
        ELSE /\ history' = hist \o << [squares |-> [squares EXCEPT ![i] = IF xIsNext THEN "O" ELSE "X"]] >>
             /\ stepNumber' = Len(hist)
             /\ xIsNext' = ~xIsNext
             /\ UNCHANGED isAscending

\* handleClick without setStepNumber
handleClick_keepsStep(i) ==
    LET hist == SubSeq(history, 1, stepNumber + 1)
        squares == hist[Len(hist)].squares
    IN  IF winner # Null \/ squares[i] # Null
        THEN UNCHANGED gameVars
        ELSE /\ history' = hist \o << [squares |-> [squares EXCEPT ![i] = IF xIsNext THEN "X" ELSE "O"]] >>
             /\ xIsNext' = ~xIsNext
             /\ UNCHANGED <<stepNumber, isAscending>>

\* handleClick testing the winner of the latest snapshot instead of the displayed one
handleClick_latestWinner(i) ==
    LET hist == SubSeq(history, 1, stepNumber + 1)
        squares == hist[Len(hist)].squares
    IN  IF calculateWinner(history[Len(history)].squares).winner # Null \/ squares[i] # Null
        THEN UNCHANGED gameVars
        ELSE /\ history' = hist \o << [squares |-> [squares EXCEPT ![i] = IF xIsNext THEN "X" ELSE "O"]] >>
             /\ stepNumber' = Len(hist)
             /\ xIsNext' = ~xIsNext
             /\ UNCHANGED isAscending

handleClick(i) ==
    LET hist == SubSeq(history, 1, stepNumber + 1)
        cur == hist[Len(hist)]
        squares == cur.squares
    IN  IF winner # Null \/ squares[i] # Null
        THEN UNCHANGED gameVars
        ELSE /\ history' = hist \o << [squares |-> [squares EXCEPT ![i] = IF xIsNext THEN "X" ELSE "O"]] >>
             /\ stepNumber' = Len(hist)
             /\ xIsNext' = ~xIsNext
             /\ UNCHANGED isAscending

\* jumpTo without setXIsNext
jumpTo_keepsTurn(step) ==
    /\ stepNumber' = step
    /\ UNCHANGED <<history, isAscending, xIsNext>>

\* jumpTo dropping the snapshots beyond the step it jumps to
jumpTo_truncates(step) ==
    /\ stepNumber' = step
    /\ xIsNext' = (step % 2 = 0)
    /\ history' = SubSeq(history, 1, step + 1)
    /\ UNCHANGED isAscending

jumpTo(step) ==
    /\ stepNumber' = step
    /\ xIsNext' = (step % 2 = 0)
    /\ UNCHANGED <<history, isAscending>>

\* onClick of the sort button: setIsAscending(!isAscending)
toggleSort ==
    /\ isAscending' = ~isAscending
    /\ UNCHANGED <<history, stepNumber, xIsNext>>

----------------------------------------------------------------------------
(* Move list and status *)

NumStr == [n \in 0 .. 9 |-> IF n = 0 THEN "0" ELSE DigitStr[n]]

\* location ? location : ""
locationText(location) == IF location # NoLocation THEN location ELSE ""

\* One <li> of the move list: a bold span for the current step, else a button
\* whose onClick is jumpTo(move).
\* every entry rendered as a button, the current step too
moveKind_allButtons(step, move) == "button"

moveKind(step, move) == IF move = step THEN "span" ELSE "button"

moveText(h, step, move) ==
    LET location == getMoveLocation(h, move)
    IN  IF move = step
        THEN "You are at move #" \o NumStr[move] \o " " \o locationText(location)
        ELSE IF move # 0
             THEN "Go to move #" \o NumStr[move] \o " " \o locationText(location)
             ELSE "Go to game start"

moveEntry(h, step, move) ==
    [key |-> move, kind |-> moveKind(step, move), text |-> moveText(h, step, move)]

\* history.map(...) of the render
movesOf(h, step) == [k \in 1 .. Len(h) |-> moveEntry(h, step, k - 1)]

\* moves.slice().reverse()
reverse(s) == [k \in 1 .. Len(s) |-> s[Len(s) + 1 - k]]

\* the move list shown in history order whatever the flag
sortedMovesOf_ignoresFlag(h, step, asc) == movesOf(h, step)

sortedMovesOf(h, step, asc) == IF asc THEN movesOf(h, step) ELSE reverse(movesOf(h, step))

moves == movesOf(history, stepNumber)
sortedMoves == sortedMovesOf(history, stepNumber, isAscending)

DrawStep == 9

\* the status testing for the draw before the winner
status_drawFirst ==
    IF stepNumber = DrawStep
    THEN "It's a draw!"
    ELSE IF winner # Null
         THEN "Winner: " \o winner
         ELSE "Next player: " \o (IF xIsNext THEN "X" ELSE "O")

status ==
    IF winner # Null
    THEN "Winner: " \o winner
    ELSE IF stepNumber = DrawStep
         THEN "It's a draw!"
         ELSE "Next player: " \o (IF xIsNext THEN "X" ELSE "O")

----------------------------------------------------------------------------
(* User events *)

RECURSIVE gapsFrom(_, _, _)
gapsFrom(squares, c, empties) ==
    IF c >= NumSquares THEN 0
    ELSE IF squares[c] = Null
         THEN gapsFrom(squares, c + 1, empties + 1)
         ELSE empties + gapsFrom(squares, c + 1, empties)

\* the number of gaps of a board
Gaps(squares) == gapsFrom(squares, 0, 0)

\* the cells on which a click is explored
ClickInputs ==
    {i \in Cells : \/ current.squares[i] # Null
                   \/ Gaps([current.squares EXCEPT ![i] = "X"]) <= MaxGaps}

\* the moves whose list entry is a button
JumpInputs == {m \in 0 .. (Len(history) - 1) : moveKind(stepNumber, m) = "button"}

\* The history variable lastOp records the last event and the state it was
\* raised in; whether a click had to be ignored is judged on that state by
\* Ignorable, not by what the handler did.  For a click that had to be
\* ignored the clicked cell is not recorded, and for one that had to be
\* accepted the recorded history stops at the snapshot then displayed, with
\* the number of snapshots beyond it and how the game stood in the latest one.
GameState == [history |-> history, stepNumber |-> stepNumber,
              xIsNext |-> xIsNext, isAscending |-> isAscending]

Ignorable(i) == HasWinner(current.squares) \/ current.squares[i] # Null

Standing(b) == IF HasWinner(b) THEN "won" ELSE IF IsFull(b) THEN "drawn" ELSE "open"

CellClick(i) ==
    /\ handleClick(i)
    /\ IF Ignorable(i)
       THEN /\ lastOp' = [op |-> "click", ignorable |-> TRUE, before |-> GameState]
            /\ nAccepted' = nAccepted
       ELSE /\ lastOp' = [op |-> "click", ignorable |-> FALSE, cell |-> i,
                          step |-> stepNumber,
                          past |-> SubSeq(history, 1, stepNumber + 1),
                          beyond |-> Len(history) - (stepNumber + 1),
                          latest |-> Standing(Snapshot(history, LastIndex(history)).squares)]
            /\ nAccepted' = IF jumped THEN nAccepted ELSE nAccepted + 1
    /\ UNCHANGED <<jumped, cwVars>>

MoveClick(m) ==
    /\ jumpTo(m)
    /\ lastOp' = [op |-> "jump", to |-> m,
                  before |-> [history |-> history, isAscending |-> isAscending]]
    /\ jumped' = TRUE
    /\ nAccepted' = 0
    /\ UNCHANGED cwVars

SortClick ==
    /\ toggleSort
    /\ lastOp' = [op |-> "sort", before |-> GameState]
    /\ UNCHANGED <<jumped, nAccepted, cwVars>>

\* no call of calculateWinner has returned yet
NoCall == <<>>

Init ==
    /\ history = << [squares |-> EmptyBoard] >>
    /\ stepNumber = 0
    /\ xIsNext = TRUE
    /\ isAscending = TRUE
    /\ lastOp = [op |-> "init"]
    /\ jumped = FALSE
    /\ nAccepted = 0
    /\ cwSquares = EmptyBoard
    /\ cwResult = NoCall

Next ==
    \/ \E i \in ClickInputs : CellClick(i)
    \/ \E m \in JumpInputs : MoveClick(m)
    \/ SortClick

Spec == Init /\ [][Next]_vars

----------------------------------------------------------------------------
(* Navigation over the history: the same handlers, with lastOp recording
   round trips. A jump away from step t records the state it left; the jump
   back is the click on the button of move t while no other event has
   happened since. *)

TripCellClick(i) ==
    /\ handleClick(i)
    /\ lastOp' = [op |-> "click"]
    /\ UNCHANGED <<jumped, nAccepted, cwVars>>

TripSortClick ==
    /\ toggleSort
    /\ lastOp' = [op |-> "sort"]
    /\ UNCHANGED <<jumped, nAccepted, cwVars>>

JumpAway(s) ==
    /\ jumpTo(s)
    /\ lastOp' = [op |-> "away", to |-> s, origin |-> GameState]
    /\ UNCHANGED <<jumped, nAccepted, cwVars>>

JumpBack ==
    /\ lastOp.op = "away"
    /\ lastOp.origin.stepNumber \in JumpInputs
    /\ jumpTo(lastOp.origin.stepNumber)
    /\ lastOp' = [op |-> "back", via |-> lastOp.to, origin |-> lastOp.origin]
    /\ UNCHANGED <<jumped, nAccepted, cwVars>>

NextTrip ==
    \/ \E i \in ClickInputs : TripCellClick(i)
    \/ TripSortClick
    \/ \E s \in JumpInputs : JumpAway(s)
    \/ JumpBack

SpecTrip == Init /\ [][NextTrip]_vars

----------------------------------------------------------------------------
(* Play without time travel: no button of the move list is clicked, and a
   click on an empty cell is made again and again while the game is in
   progress. *)

\* the displayed game is won or drawn
GameOver == HasWinner(current.squares) \/ IsFull(current.squares)

\* a click on an empty cell while the game is in progress
PlayMove ==
    /\ ~GameOver
    /\ \E i \in ClickInputs : current.squares[i] = Null /\ CellClick(i)

NextPlay ==
    \/ \E i \in ClickInputs : CellClick(i)
    \/ SortClick

SpecPlay == Init /\ [][NextPlay]_vars /\ WF_vars(PlayMove)

----------------------------------------------------------------------------
(* calculateWinner called directly on an arbitrary board *)

CallCalculateWinner ==
    /\ cwResult = NoCall
    /\ cwResult' = << calculateWinner(cwSquares) >>
    /\ UNCHANGED <<gameVars, ghostVars, cwSquares>>

InitCW ==
    /\ history = << [squares |-> EmptyBoard] >>
    /\ stepNumber = 0
    /\ xIsNext = TRUE
    /\ isAscending = TRUE
    /\ lastOp = [op |-> "init"]
    /\ jumped = FALSE
    /\ nAccepted = 0
    /\ cwSquares \in Boards
    /\ cwResult = NoCall

NextCW == CallCalculateWinner

SpecCW == InitCW /\ [][NextCW]_vars

----------------------------------------------------------------------------

----------------------------------------------------------------------------
(* Claims *)

IgnoredClick == lastOp.op = "click" /\ lastOp.ignorable
AcceptedClick == lastOp.op = "click" /\ ~lastOp.ignorable

\* C1: a cell click made when the displayed snapshot has a winner, or on an
\* occupied cell of the displayed snapshot, changes nothing: history (every
\* snapshot, also those after the current step), current step, turn indicator
\* and sort flag are as they were before the click.
C1_IgnoredClickChangesNothing ==
    IgnoredClick =>
        /\ history = lastOp.before.history
        /\ stepNumber = lastOp.before.stepNumber
        /\ xIsNext = lastOp.before.xIsNext
        /\ isAscending = lastOp.before.isAscending

\* C1 witness: a click was made while the displayed snapshot has a winner
C1_Witness == IgnoredClick /\ HasWinner(current.squares)

\* a click was made on an occupied cell while snapshots lie beyond the
\* displayed one, which has no winner
C1_WitnessOccupied ==
    /\ IgnoredClick
    /\ ~HasWinner(current.squares)
    /\ stepNumber < LastIndex(history)

\* C2: the stored turn indicator is true exactly when the current step is even.
C2_TurnIsStepParity == xIsNext = (stepNumber % 2 = 0)

\* C2 witness: after a jump and a later accepted click, with the list sorted
\* descending, the step is odd and it is O's turn
C2_Witness ==
    /\ jumped
    /\ AcceptedClick
    /\ ~isAscending
    /\ stepNumber % 2 = 1
    /\ ~xIsNext

\* C3: an accepted click at a step s below the last history index leaves
\* exactly s+2 snapshots: snapshots 0..s as before, everything beyond s
\* discarded, one new snapshot at index s+1, which becomes the current step.
C3_BranchTruncatesThenAppends ==
    (AcceptedClick /\ lastOp.beyond >= 1) =>
        /\ Len(history) = lastOp.step + 2
        /\ \A k \in 0 .. lastOp.step : Snapshot(history, k) = Snapshot(lastOp.past, k)
        /\ Snapshot(history, lastOp.step + 1) # Snapshot(lastOp.past, lastOp.step)
        /\ stepNumber = lastOp.step + 1

\* C3 witness: a click was accepted at step 1 while three snapshots lay beyond
C3_Witness == AcceptedClick /\ lastOp.beyond = 3 /\ lastOp.step = 1

\* C4: after k accepted moves and no jump, history has k+1 snapshots, the
\* current step is k, and snapshot k differs from snapshot k-1 in exactly one
\* cell.
C4_PlainPlayGrowsByOne ==
    ~jumped =>
        /\ Len(history) = nAccepted + 1
        /\ stepNumber = nAccepted
        /\ nAccepted >= 1 =>
              Cardinality(DifferingCells(Snapshot(history, nAccepted).squares,
                                         Snapshot(history, nAccepted - 1).squares)) = 1

\* C4 witness: nine moves were accepted without any jump
C4_Witness == ~jumped /\ nAccepted = NumSquares /\ AcceptedClick

\* C5: calculateWinner on any board: if some fixed line holds three equal
\* symbols it returns the first such line in the fixed order and its symbol,
\* else winner = none and line = none.
C5_CalculateWinner ==
    cwResult # NoCall =>
        LET r == cwResult[1]
            won == {n \in FixedLineNumbers : Holds(cwSquares, n, "X") \/ Holds(cwSquares, n, "O")}
        IN  IF won # {}
            THEN LET first == CHOOSE n \in won : \A m \in won : n <= m
                 IN  /\ r.line = FixedLines[first]
                     /\ r.winner = cwSquares[FixedLines[first][1]]
                     /\ r.winner \in {"X", "O"}
            ELSE r.winner = Null /\ r.line = NoLine

\* C5 witness: a board with a line of X and a later line of O, for which the
\* call returned X and the X line
C5_Witness ==
    /\ cwResult # NoCall
    /\ Holds(cwSquares, 2, "X")
    /\ Holds(cwSquares, 3, "O")
    /\ cwResult[1] = [winner |-> "X", line |-> <<3, 4, 5>>]

\* C6: jumping to an existing index s sets the current step to s and the turn
\* indicator to (s is even), and leaves history and the sort flag unchanged.
C6_JumpFrame ==
    lastOp.op = "jump" =>
        /\ stepNumber = lastOp.to
        /\ xIsNext = (lastOp.to % 2 = 0)
        /\ history = lastOp.before.history
        /\ isAscending = lastOp.before.isAscending

\* C6 witness: a jump landed on an odd step below the last index
C6_Witness ==
    /\ lastOp.op = "jump"
    /\ lastOp.to % 2 = 1
    /\ lastOp.to < LastIndex(history)

\* C7: toggling the sort order flips the flag, leaves history, current step
\* and turn indicator unchanged, and shows the move list in exactly the
\* reverse of the order shown before.
C7_ToggleReversesDisplay ==
    lastOp.op = "sort" =>
        LET b == lastOp.before
            shownBefore == sortedMovesOf(b.history, b.stepNumber, b.isAscending)
            shownNow == sortedMoves
        IN  /\ isAscending = ~b.isAscending
            /\ history = b.history
            /\ stepNumber = b.stepNumber
            /\ xIsNext = b.xIsNext
            /\ Len(shownNow) = Len(shownBefore)
            /\ \A k \in 1 .. Len(shownNow) : shownNow[k] = shownBefore[Len(shownBefore) + 1 - k]

\* C7 witness: the list of at least three moves was toggled to descending
\* while an earlier step is displayed
C7_Witness ==
    /\ lastOp.op = "sort"
    /\ ~isAscending
    /\ Len(history) >= 3
    /\ stepNumber < LastIndex(history)

\* C8: an accepted click at cell i from step s appends a snapshot equal to
\* snapshot s except at i, which holds X if s is even and O if s is odd; the
\* current step becomes the index of that last snapshot.
C8_AcceptedClickPlacesSymbol ==
    AcceptedClick =>
        /\ \A c \in Cells :
              Snapshot(history, LastIndex(history)).squares[c]
                  = IF c = lastOp.cell THEN SymbolAt(lastOp.step)
                                       ELSE Snapshot(lastOp.past, lastOp.step).squares[c]
        /\ stepNumber = LastIndex(history)

\* C8 witness: O has just been placed by an accepted click at cell 8
C8_Witness ==
    /\ AcceptedClick
    /\ lastOp.step % 2 = 1
    /\ lastOp.cell = 8
    /\ current.squares[8] = "O"

\* C9: no snapshot of the history holds both a complete line of X and a
\* complete line of O.
C9_AtMostOneWinner ==
    \A k \in 0 .. LastIndex(history) :
        ~(HasLine(Snapshot(history, k).squares, "X") /\ HasLine(Snapshot(history, k).squares, "O"))

\* C9 witness: O has won, X holds no line, and a further click was ignored
C9_Witness ==
    /\ IgnoredClick
    /\ HasLine(current.squares, "O")
    /\ ~HasLine(current.squares, "X")
    /\ ~IsFull(current.squares)

\* C10: the status is "Winner: W" when the displayed snapshot has winner W,
\* else the draw text when the step is 9, else "Next player: " by step parity;
\* the draw text is shown exactly when the displayed board is full with no
\* winner, and the step is 9 exactly when the displayed board is full.
C10_StatusDerivation ==
    /\ HasLine(current.squares, "X") => status = "Winner: X"
    /\ HasLine(current.squares, "O") => status = "Winner: O"
    /\ (~HasWinner(current.squares) /\ stepNumber = 9) => status = "It's a draw!"
    /\ (~HasWinner(current.squares) /\ stepNumber # 9) => status = "Next player: " \o SymbolAt(stepNumber)
    /\ status = "It's a draw!" <=> (IsFull(current.squares) /\ ~HasWinner(current.squares))
    /\ stepNumber = 9 <=> IsFull(current.squares)

\* C10 witness: the full board without a winner is displayed
C10_Witness ==
    /\ status = "It's a draw!"
    /\ IsFull(current.squares)
    /\ ~HasWinner(current.squares)

\* the display string of the 1-based (row, column) of each cell, by cell index
LocationOfCell ==
    << "(1, 1)", "(1, 2)", "(1, 3)",
       "(2, 1)", "(2, 2)", "(2, 3)",
       "(3, 1)", "(3, 2)", "(3, 3)" >>

\* C11: for every move index m from 1 to the last history index,
\* getMoveLocation returns the 1-based (row, column) of the one cell in which
\* snapshot m differs from snapshot m-1, and never "no location"; for m = 0 it
\* returns "no location".
C11_MoveLocation ==
    /\ getMoveLocation(history, 0) = NoLocation
    /\ \A m \in 1 .. LastIndex(history) :
          LET d == DifferingCells(Snapshot(history, m).squares, Snapshot(history, m - 1).squares)
          IN  /\ Cardinality(d) = 1
              /\ \A i \in d : getMoveLocation(history, m) = LocationOfCell[i + 1]
              /\ getMoveLocation(history, m) # NoLocation

\* C11 witness: move 2 was made at cell 2, row 1 and column 3, and move 5 at
\* cell 3, row 2 and column 1
C11_Witness ==
    /\ Len(history) >= 6
    /\ DifferingCells(Snapshot(history, 2).squares, Snapshot(history, 1).squares) = {2}
    /\ getMoveLocation(history, 2) = "(1, 3)"
    /\ getMoveLocation(history, 5) = "(2, 1)"

\* board b is board a with one empty cell of a set to X or O
OneMoveApart(a, b) ==
    LET d == DifferingCells(a, b)
    IN  /\ Cardinality(d) = 1
        /\ \A c \in d : a[c] = Null /\ b[c] \in {"X", "O"}

\* C12: snapshot 0 is all-empty and every later snapshot is its predecessor
\* with exactly one previously empty cell set to X or O; so a cell that is
\* non-empty in a snapshot keeps its value in every later snapshot.
C12_HistoryIsChainOfMoves ==
    /\ \A c \in Cells : Snapshot(history, 0).squares[c] = Null
    /\ \A k \in 1 .. LastIndex(history) :
          OneMoveApart(Snapshot(history, k - 1).squares, Snapshot(history, k).squares)
    /\ \A j \in 0 .. LastIndex(history) : \A c \in Cells :
          Snapshot(history, j).squares[c] # Null
              => \A k \in j .. LastIndex(history) :
                     Snapshot(history, k).squares[c] = Snapshot(history, j).squares[c]

\* C12 witness: a history of at least five snapshots whose last one was
\* appended by a click made after a jump back, with snapshots discarded
C12_Witness ==
    /\ AcceptedClick
    /\ lastOp.beyond >= 2
    /\ lastOp.step >= 3

\* C15: the current step is an index into history, history has between 1 and
\* 10 snapshots, and the move list offers a jump exactly for the history
\* indices other than the current step.
C15_StepIsValidIndex ==
    /\ 0 <= stepNumber
    /\ stepNumber < Len(history)
    /\ 1 <= Len(history)
    /\ Len(history) <= 10
    /\ \A m \in 0 .. LastIndex(history) :
          moveKind(stepNumber, m) = "button" <=> m # stepNumber
    /\ JumpInputs = (0 .. LastIndex(history)) \ {stepNumber}

\* C15 witness: the history has its 10 snapshots and step 4 is displayed
\* after a jump
C15_Witness ==
    /\ Len(history) = 10
    /\ lastOp.op = "jump"
    /\ stepNumber = 4

Count(b, sym) == Cardinality({c \in Cells : b[c] = sym})

\* C16: snapshot k holds exactly k non-empty cells, ceil(k/2) of them X and
\* floor(k/2) of them O.
C16_SymbolCounts ==
    \A k \in 0 .. LastIndex(history) :
        /\ Count(Snapshot(history, k).squares, "X") = (k + 1) \div 2
        /\ Count(Snapshot(history, k).squares, "O") = k \div 2
        /\ Count(Snapshot(history, k).squares, Null) = NumSquares - k

\* C16 witness: O was placed at step 5 by a click made after a jump back from
\* a longer history
C16_Witness ==
    /\ AcceptedClick
    /\ lastOp.beyond >= 1
    /\ lastOp.step = 5
    /\ Count(current.squares, "O") = 3

\* C17: every snapshot below the last history index has no winner according
\* to calculateWinner.
C17_OnlyLastSnapshotWins ==
    \A k \in 0 .. (LastIndex(history) - 1) :
        /\ calculateWinner(Snapshot(history, k).squares).winner = Null
        /\ ~HasWinner(Snapshot(history, k).squares)

\* C17 witness: the last of at least six snapshots has a winner while an
\* earlier step is displayed
C17_Witness ==
    /\ Len(history) >= 6
    /\ HasWinner(Snapshot(history, LastIndex(history)).squares)
    /\ stepNumber < LastIndex(history)
    /\ lastOp.op = "jump"

\* C13: when the latest snapshot has a winner or is a full board and an
\* earlier step s without a winner is displayed after a jump, a click on a
\* cell that is empty in snapshot s is accepted: it places the symbol given by
\* the parity of s, discards the snapshots beyond s and makes s+1 the current
\* step.
C13_TimeTravelReenablesPlay ==
    (AcceptedClick /\ lastOp.latest # "open" /\ lastOp.beyond >= 1) =>
        /\ history = lastOp.past \o
              << [squares |-> [Snapshot(lastOp.past, lastOp.step).squares
                                  EXCEPT ![lastOp.cell] = SymbolAt(lastOp.step)]] >>
        /\ stepNumber = lastOp.step + 1
        /\ xIsNext = (SymbolAt(lastOp.step + 1) = "X")

\* C13 witness: a click was accepted at an earlier step while the latest
\* snapshot had a winner
C13_Witness ==
    /\ AcceptedClick
    /\ lastOp.latest = "won"
    /\ lastOp.beyond >= 1
    /\ jumped

\* a click was accepted at an earlier step while the latest snapshot was a
\* full board without a winner
C13_WitnessDrawn ==
    /\ AcceptedClick
    /\ lastOp.latest = "drawn"
    /\ lastOp.beyond >= 1
    /\ jumped

\* the cells of the first fixed line of board b that holds three equal symbols
FirstHeldLineCells(b) ==
    LET held == {n \in FixedLineNumbers : Holds(b, n, "X") \/ Holds(b, n, "O")}
        first == CHOOSE n \in held : \A o \in held : n <= o
    IN  {FixedLines[first][1], FixedLines[first][2], FixedLines[first][3]}

\* C14: the set of highlighted cells is empty when the current snapshot has
\* no winner; otherwise it is exactly the three indices of the line returned
\* by calculateWinner for the current snapshot, and all three hold the
\* winner's symbol.
C14_HighlightedCells ==
    IF ~HasWinner(current.squares)
    THEN highlighted = {}
    ELSE LET r == calculateWinner(current.squares)
         IN  /\ r.line # NoLine
             /\ highlighted = {r.line[1], r.line[2], r.line[3]}
             /\ highlighted = FirstHeldLineCells(current.squares)
             /\ Cardinality(highlighted) = 3
             /\ r.winner \in {"X", "O"}
             /\ \A c \in highlighted : current.squares[c] = r.winner

\* C14 witness: X has won on the first column, which is highlighted
C14_Witness ==
    /\ HasLine(current.squares, "X")
    /\ highlighted = {0, 3, 6}
    /\ winner = "X"

\* no winner is displayed although some cells are occupied, and nothing is
\* highlighted
C14_WitnessNoWinner ==
    /\ ~HasWinner(current.squares)
    /\ stepNumber >= 5
    /\ highlighted = {}

\* C18: jumping from step t to an existing index s keeps every snapshot, so
\* the button of move t is still offered, and jumping back to t with no cell
\* click in between restores exactly the original state: history, current
\* step, turn indicator and sort flag.
C18_JumpRoundTrip ==
    /\ (lastOp.op = "away") =>
          /\ history = lastOp.origin.history
          /\ lastOp.origin.stepNumber \in JumpInputs
    /\ (lastOp.op = "back") =>
          /\ history = lastOp.origin.history
          /\ stepNumber = lastOp.origin.stepNumber
          /\ xIsNext = lastOp.origin.xIsNext
          /\ isAscending = lastOp.origin.isAscending

\* C18 witness: from the latest of at least five moves the user went back to
\* an earlier step and returned, with the list in descending order
C18_Witness ==
    /\ lastOp.op = "back"
    /\ lastOp.via < stepNumber
    /\ stepNumber >= 5
    /\ stepNumber = LastIndex(history)
    /\ ~isAscending

\* C19: in a run without jumps every step that changes the game state is a
\* counted cell click and at most 9 of them happen; when clicks on empty
\* cells keep being made while the game is in progress the game eventually
\* is won or drawn, and from then on no cell click changes the state.
C19_PlayTerminates ==
    /\ [](nAccepted <= NumSquares)
    /\ [][<<history, stepNumber, xIsNext>>' # <<history, stepNumber, xIsNext>>
             => nAccepted' = nAccepted + 1]_vars
    /\ [][GameOver => <<history, stepNumber, xIsNext>>' = <<history, stepNumber, xIsNext>>]_vars
    /\ <>GameOver

\* C19 witness: without any jump the game was won after seven moves and a
\* later cell click was ignored
C19_Witness ==
    /\ ~jumped
    /\ IgnoredClick
    /\ HasWinner(current.squares)
    /\ nAccepted = 7
    /\ stepNumber = 7

\* without any jump the game was drawn after nine moves and a later cell
\* click was ignored
C19_WitnessDrawn ==
    /\ ~jumped
    /\ IgnoredClick
    /\ ~HasWinner(current.squares)
    /\ IsFull(current.squares)
    /\ nAccepted = NumSquares

====
